---- MODULE Spec2Model ----
(***************************************************************************)
(* Model of the Akai MPK 225 control-device driver                         *)
(* (src/Zynthian/zynthian_ctrldev_akai_mpk_225.py).                        *)
(*                                                                         *)
(* The driver object owns three mode handlers (Mixer, Device, Pattern) and *)
(* a pointer to the current one.  The host calls init / end, midi_event    *)
(* and, through the signal manager, _on_gui_show_screen.  The handlers'    *)
(* entry points (cc_change_with_channel, note_on, note_off) are modelled   *)
(* both as what midi_event calls and as operations of their own on the     *)
(* current handler, so that the handler tables are exercised whether or    *)
(* not midi_event reaches them.                                            *)
(*                                                                         *)
(* Host collaborators are modelled by what the driver does to them:        *)
(*   host  - the host calls made by the last operation (send_cuia,         *)
(*           set_level, set_balance, set_mute, set_solo), in order;        *)
(*   calls - the handler methods the driver called in the last operation;  *)
(*   level, balance, mute, solo - the mixer / chain state the handlers     *)
(*           read and write.  level and balance hold 127 times the float   *)
(*           the code computes, which keeps minv + (ccval/127.0)*(maxv -   *)
(*           minv) exact in integers.                                      *)
(***************************************************************************)
EXTENDS Integers, Sequences, FiniteSets, TLC

\* ------------------------------------------------------------------------
\* Bounds of the model
\* ------------------------------------------------------------------------
\* Number of distinct data values a knob can send in the model.
NumVals == 2
\* Number of chains the host holds; the last one is the main chain.
NumChains == 3

\* ------------------------------------------------------------------------
\* Program constants
\* ------------------------------------------------------------------------
MIDI_NOTE_OFF == 128
MIDI_NOTE_ON == 144
MIDI_CC == 176
MIDI_PC == 192

CHAN_KNOBS_A == 1
CHAN_KNOBS_B == 2
CHAN_KNOBS_C == 3
CC_KNOBS_START == 50
CC_KNOBS_END == 57
CHAN_PADS == 10
NOTE_PAD_START_A == 36
NOTE_PAD_END_A == 43
NOTE_PAD_START_B == 44
NOTE_PAD_END_B == 51
CHAN_TRANSPORT == 0
CC_LOOP == 114
CC_RWD == 115
CC_FFW == 116
CC_STOP == 117
CC_PLAY == 118
CC_REC == 119

\* DeviceHandler pad notes
NOTE_PAD_UP == 36
NOTE_PAD_DOWN == 37
NOTE_PAD_LEFT == 38
NOTE_PAD_RIGHT == 39
NOTE_PAD_BACK == 40
NOTE_PAD_SELECT == 41
NOTE_PAD_SNAPSHOT == 42
NOTE_PAD_LAYER == 43
\* DeviceHandler knob range (literals 50 and 53 of cc_change_with_channel)
DEV_CC_FIRST == 50
DEV_CC_LAST == 53

\* PatternHandler
NOTE_PAD_PLAY == 36
NOTE_PAD_STOP == 37
NOTE_PAD_REC == 38

\* The header's expected hardware mapping (module comment, lines 41-47)
DOC_CC_KNOBS_FIRST == 24
DOC_CC_STOP == 116
DOC_CC_PLAY == 118
DOC_CC_REC == 119

Handlers == {"Mixer", "Device", "Pattern"}

\* The screens _on_gui_show_screen names, and one it does not name.
MixerScreens == {"mixer", "zynpad"}
DeviceScreens == {"control", "preset", "main_menu", "admin"}
PatternScreens == {"pattern_editor", "arranger"}
OtherScreens == {"option"}
Screens == MixerScreens \cup DeviceScreens \cup PatternScreens \cup OtherScreens
\* _current_screen = None
NoScreen == "None"

VARIABLES
    current_handler,   \* self._current_handler: "Mixer" | "Device" | "Pattern"
    current_screen,    \* self._current_screen
    registered,        \* callbacks of self._signals registered with zynsigman
    last_cc_values,    \* DeviceHandler._last_cc_values: <<channel, ccnum>> -> value
    level,             \* zynmixer level per mixer channel, times 127
    balance,           \* zynmixer balance per mixer channel, times 127
    mute,              \* zynmixer mute per mixer channel
    solo,              \* chain.solo per chain index
    op,                \* the last operation and its arguments
    calls,             \* handler methods called by the last operation
    host,              \* host calls made by the last operation
    raised,            \* TRUE when the last operation raised an exception
    prev_handler,      \* history: current_handler before the last operation
    prev_hs,           \* history: the handler-side state before the last operation
    first_cc_values,   \* history: first value the Device handler got per knob
    zynpot_sum         \* history: sum of the ZYNPOT deltas emitted per pot

vars == <<current_handler, current_screen, registered, last_cc_values, level,
          balance, mute, solo, op, calls, host, raised, prev_handler,
          prev_hs, first_cc_values, zynpot_sum>>

\* ------------------------------------------------------------------------
\* Host collaborators
\* ------------------------------------------------------------------------
ChainIndexes == 0 .. (NumChains - 1)

\* chain_manager.get_chain_by_index(index) is None outside the chain list.
HasChain(index) == index \in ChainIndexes

\* chain.chain_id: the main chain (id 0) is the last chain of the list.
chain_id(index) == IF index = NumChains - 1 THEN 0 ELSE index + 1

\* chain.mixer_chan
mixer_chan(index) == index

BoolInt(b) == IF b THEN 1 ELSE 0

Cuia(cmd, params) == [fn |-> "send_cuia", cmd |-> cmd, args |-> params]
HostCall(fn, args) == [fn |-> fn, cmd |-> "", args |-> args]

\* The handler-side state an entry point reads and writes.
HState == [last |-> last_cc_values, level |-> level, balance |-> balance,
           mute |-> mute, solo |-> solo]

\* ------------------------------------------------------------------------
\* MixerHandler
\* ------------------------------------------------------------------------
\* MixerHandler._chains_bank, set in __init__ and never changed
chains_bank == 0

\* MixerHandler._update_chain(type, ccnum, ccval, minv, maxv); ranged is
\* "minv is not None and maxv is not None".  ret is the value returned.
update_chain(hs, type, ccnum, ccval, ranged, minv, maxv) ==
    LET index == ccnum - CC_KNOBS_START + chains_bank * 8
        chan == mixer_chan(index)
        scaled == minv * 127 + ccval * (maxv - minv)
    IN  IF ~HasChain(index) \/ chain_id(index) = 0
        THEN [hs |-> hs, host |-> <<>>, ret |-> FALSE]
        ELSE CASE type = "mute_toggle" ->
                    LET value == ~hs.mute[chan]
                    IN  [hs |-> [hs EXCEPT !.mute[chan] = value],
                         host |-> <<HostCall("set_mute", <<chan, BoolInt(value), 1>>)>>,
                         ret |-> TRUE]
               [] type = "solo_toggle" ->
                    LET value == ~hs.solo[index]
                    IN  [hs |-> [hs EXCEPT !.solo[index] = value],
                         host |-> <<HostCall("set_solo", <<index, BoolInt(value)>>)>>,
                         ret |-> TRUE]
               [] type = "level" ->
                    LET value == IF ranged THEN scaled ELSE hs.level[chan]
                    IN  [hs |-> [hs EXCEPT !.level[chan] = value],
                         host |-> <<HostCall("set_level", <<chan, value>>)>>,
                         ret |-> TRUE]
               [] type = "balance" ->
                    LET value == IF ranged THEN scaled ELSE hs.balance[chan]
                    IN  [hs |-> [hs EXCEPT !.balance[chan] = value],
                         host |-> <<HostCall("set_balance", <<chan, value>>)>>,
                         ret |-> TRUE]
               [] OTHER -> [hs |-> hs, host |-> <<>>, ret |-> TRUE]

\* MixerHandler._update_volume
update_volume(hs, ccnum, ccval) ==
    update_chain(hs, "level", ccnum, ccval, TRUE, 0, 100)

\* MixerHandler._update_pan
update_pan(hs, ccnum, ccval) ==
    update_chain(hs, "balance", ccnum, ccval, TRUE, -100, 100)

\* MixerHandler._update_send: a placeholder that does nothing
update_send(hs, ccnum, ccval) == [hs |-> hs, host |-> <<>>, ret |-> FALSE]

\* Mutant of Mixer_note_on: the bank B pad index is taken from the start of
\* bank A, so pad 44 + i addresses chain i + 8.
Mixer_note_on_bank_a_offset(hs, note, channel, velocity) ==
    IF channel = CHAN_PADS
    THEN IF NOTE_PAD_START_A <= note /\ note <= NOTE_PAD_END_A
         THEN update_chain(hs, "mute_toggle",
                           (note - NOTE_PAD_START_A) + CC_KNOBS_START, 127,
                           FALSE, 0, 0)
         ELSE IF NOTE_PAD_START_B <= note /\ note <= NOTE_PAD_END_B
              THEN update_chain(hs, "solo_toggle",
                                (note - NOTE_PAD_START_A) + CC_KNOBS_START, 127,
                                FALSE, 0, 0)
              ELSE [hs |-> hs, host |-> <<>>, ret |-> FALSE]
    ELSE [hs |-> hs, host |-> <<>>, ret |-> FALSE]

\* MixerHandler.note_on
Mixer_note_on(hs, note, channel, velocity) ==
    IF channel = CHAN_PADS
    THEN IF NOTE_PAD_START_A <= note /\ note <= NOTE_PAD_END_A
         THEN update_chain(hs, "mute_toggle",
                           (note - NOTE_PAD_START_A) + CC_KNOBS_START, 127,
                           FALSE, 0, 0)
         ELSE IF NOTE_PAD_START_B <= note /\ note <= NOTE_PAD_END_B
              THEN update_chain(hs, "solo_toggle",
                                (note - NOTE_PAD_START_B) + CC_KNOBS_START, 127,
                                FALSE, 0, 0)
              ELSE [hs |-> hs, host |-> <<>>, ret |-> FALSE]
    ELSE [hs |-> hs, host |-> <<>>, ret |-> FALSE]

\* The transport table of MixerHandler.cc_change_with_channel
MixerTransport(ccnum) ==
    IF ccnum = CC_STOP THEN <<Cuia("STOP_AUDIO_PLAY", <<>>)>>
    ELSE IF ccnum = CC_PLAY THEN <<Cuia("TOGGLE_AUDIO_PLAY", <<>>)>>
    ELSE IF ccnum = CC_REC THEN <<Cuia("TOGGLE_AUDIO_RECORD", <<>>)>>
    ELSE IF ccnum = CC_LOOP THEN <<Cuia("TOGGLE_LOOP", <<>>)>>
    ELSE IF ccnum = CC_FFW THEN <<Cuia("FORWARD", <<>>)>>
    ELSE IF ccnum = CC_RWD THEN <<Cuia("BACKWARD", <<>>)>>
    ELSE <<>>

\* MixerHandler.cc_change_with_channel
Mixer_cc_change_with_channel(hs, channel, ccnum, ccval) ==
    IF channel = CHAN_TRANSPORT
    THEN [hs |-> hs, host |-> MixerTransport(ccnum), ret |-> FALSE]
    ELSE IF CC_KNOBS_START <= ccnum /\ ccnum <= CC_KNOBS_END
         THEN IF channel = CHAN_KNOBS_A THEN update_volume(hs, ccnum, ccval)
              ELSE IF channel = CHAN_KNOBS_B THEN update_pan(hs, ccnum, ccval)
              ELSE IF channel = CHAN_KNOBS_C THEN update_send(hs, ccnum, ccval)
              ELSE [hs |-> hs, host |-> <<>>, ret |-> FALSE]
         ELSE [hs |-> hs, host |-> <<>>, ret |-> FALSE]

\* ------------------------------------------------------------------------
\* DeviceHandler
\* ------------------------------------------------------------------------
\* DeviceHandler.note_on
Device_note_on(hs, note, channel, velocity) ==
    LET cmd == IF channel # CHAN_PADS THEN ""
               ELSE IF note = NOTE_PAD_UP THEN "ARROW_UP"
               ELSE IF note = NOTE_PAD_DOWN THEN "ARROW_DOWN"
               ELSE IF note = NOTE_PAD_LEFT THEN "ARROW_LEFT"
               ELSE IF note = NOTE_PAD_RIGHT THEN "ARROW_RIGHT"
               ELSE IF note = NOTE_PAD_BACK THEN "BACK"
               ELSE IF note = NOTE_PAD_SELECT THEN "SELECT"
               ELSE IF note = NOTE_PAD_SNAPSHOT THEN "SCREEN_ZS3"
               ELSE IF note = NOTE_PAD_LAYER THEN "LAYER_TOGGLE"
               ELSE ""
    IN  [hs |-> hs,
         host |-> IF cmd = "" THEN <<>> ELSE <<Cuia(cmd, <<>>)>>,
         ret |-> FALSE]

\* self._last_cc_values[(channel, ccnum)] = ccval
DictSet(d, key, val) ==
    [k \in (DOMAIN d) \cup {key} |-> IF k = key THEN val ELSE d[k]]

\* Mutant of Device_cc_change_with_channel: the last value is kept per
\* channel, not per (channel, ccnum), so the knobs share one record.
Device_cc_shared_record(hs, channel, ccnum, ccval) ==
    IF channel # 1
    THEN [hs |-> hs, host |-> <<>>, ret |-> FALSE]
    ELSE IF DEV_CC_FIRST <= ccnum /\ ccnum <= DEV_CC_LAST
         THEN LET pot_idx == ccnum - DEV_CC_FIRST
                  key == <<channel, DEV_CC_FIRST>>
                  known == key \in DOMAIN hs.last
                  delta == IF known THEN ccval - hs.last[key] ELSE 0
              IN  [hs |-> [hs EXCEPT !.last = DictSet(hs.last, key, ccval)],
                   host |-> IF delta # 0
                            THEN <<Cuia("ZYNPOT", <<pot_idx, delta>>)>>
                            ELSE <<>>,
                   ret |-> FALSE]
         ELSE [hs |-> hs, host |-> <<>>, ret |-> FALSE]

\* Mutant of Device_cc_change_with_channel: no first-touch suppression, a
\* knob never seen counts as having been at 0.
Device_cc_first_jump(hs, channel, ccnum, ccval) ==
    IF channel # 1
    THEN [hs |-> hs, host |-> <<>>, ret |-> FALSE]
    ELSE IF DEV_CC_FIRST <= ccnum /\ ccnum <= DEV_CC_LAST
         THEN LET pot_idx == ccnum - DEV_CC_FIRST
                  key == <<channel, ccnum>>
                  last_val == IF key \in DOMAIN hs.last THEN hs.last[key] ELSE 0
                  delta == ccval - last_val
              IN  [hs |-> [hs EXCEPT !.last = DictSet(hs.last, key, ccval)],
                   host |-> IF delta # 0
                            THEN <<Cuia("ZYNPOT", <<pot_idx, delta>>)>>
                            ELSE <<>>,
                   ret |-> FALSE]
         ELSE [hs |-> hs, host |-> <<>>, ret |-> FALSE]

\* DeviceHandler.cc_change_with_channel
Device_cc_change_with_channel(hs, channel, ccnum, ccval) ==
    IF channel # 1
    THEN [hs |-> hs, host |-> <<>>, ret |-> FALSE]
    ELSE IF DEV_CC_FIRST <= ccnum /\ ccnum <= DEV_CC_LAST
         THEN LET pot_offset == 0
                  pot_idx == ccnum - DEV_CC_FIRST + pot_offset
                  key == <<channel, ccnum>>
                  known == key \in DOMAIN hs.last
                  last_val == IF known THEN hs.last[key] ELSE ccval
                  delta == IF known THEN ccval - last_val ELSE 0
              IN  [hs |-> [hs EXCEPT !.last = DictSet(hs.last, key, ccval)],
                   host |-> IF delta # 0
                            THEN <<Cuia("ZYNPOT", <<pot_idx, delta>>)>>
                            ELSE <<>>,
                   ret |-> FALSE]
         ELSE [hs |-> hs, host |-> <<>>, ret |-> FALSE]

\* ------------------------------------------------------------------------
\* PatternHandler
\* ------------------------------------------------------------------------
\* PatternHandler.note_on
Pattern_note_on(hs, note, channel, velocity) ==
    LET cmd == IF channel # CHAN_PADS THEN ""
               ELSE IF note = NOTE_PAD_PLAY THEN "TOGGLE_PLAY"
               ELSE IF note = NOTE_PAD_STOP THEN "STOP"
               ELSE IF note = NOTE_PAD_REC THEN "TOGGLE_RECORD"
               ELSE ""
    IN  [hs |-> hs,
         host |-> IF cmd = "" THEN <<>> ELSE <<Cuia(cmd, <<>>)>>,
         ret |-> FALSE]

\* Mutant of Pattern_cc_change_with_channel: the channel is not tested.
Pattern_cc_any_channel(hs, channel, ccnum, ccval) ==
    LET cmd == IF ccnum = CC_PLAY THEN "TOGGLE_PLAY"
               ELSE IF ccnum = CC_STOP THEN "STOP"
               ELSE IF ccnum = CC_REC THEN "TOGGLE_RECORD"
               ELSE ""
    IN  [hs |-> hs,
         host |-> IF cmd = "" THEN <<>> ELSE <<Cuia(cmd, <<>>)>>,
         ret |-> FALSE]

\* PatternHandler.cc_change_with_channel
Pattern_cc_change_with_channel(hs, channel, ccnum, ccval) ==
    LET cmd == IF channel # CHAN_TRANSPORT THEN ""
               ELSE IF ccnum = CC_PLAY THEN "TOGGLE_PLAY"
               ELSE IF ccnum = CC_STOP THEN "STOP"
               ELSE IF ccnum = CC_REC THEN "TOGGLE_RECORD"
               ELSE ""
    IN  [hs |-> hs,
         host |-> IF cmd = "" THEN <<>> ELSE <<Cuia(cmd, <<>>)>>,
         ret |-> FALSE]

\* ------------------------------------------------------------------------
\* The handler entry points, by handler
\* ------------------------------------------------------------------------
\* handler.cc_change_with_channel(channel, ccnum, ccval)
Handler_cc(h, hs, channel, ccnum, ccval) ==
    CASE h = "Mixer" -> Mixer_cc_change_with_channel(hs, channel, ccnum, ccval)
      [] h = "Device" -> Device_cc_change_with_channel(hs, channel, ccnum, ccval)
      [] h = "Pattern" -> Pattern_cc_change_with_channel(hs, channel, ccnum, ccval)

\* handler.note_on(note, channel, velocity)
Handler_note_on(h, hs, note, channel, velocity) ==
    CASE h = "Mixer" -> Mixer_note_on(hs, note, channel, velocity)
      [] h = "Device" -> Device_note_on(hs, note, channel, velocity)
      [] h = "Pattern" -> Pattern_note_on(hs, note, channel, velocity)

\* handler.note_off(note, channel): no handler of the module defines it; the
\* call goes to the host's base class and touches nothing modelled here.
Handler_note_off(h, hs, note, channel) == [hs |-> hs, host |-> <<>>, ret |-> FALSE]

\* ------------------------------------------------------------------------
\* The driver: zynthian_ctrldev_akai_mpk_225
\* ------------------------------------------------------------------------
HCall(h, m, args) == [h |-> h, m |-> m, args |-> args, screen |-> ""]
ScreenCall(h, screen) ==
    [h |-> h, m |-> "on_screen_change", args |-> <<>>, screen |-> screen]

\* evtype = (ev[0] >> 4) & 0x0F
EvType(ev) == (ev[1] \div 16) % 16

\* channel = ev[0] & 0x0F
EvChannel(ev) == ev[1] % 16

\* ev[i] & 0x7F, for the Python index i (0-based)
Data7(ev, i) == ev[i + 1] % 128

\* Mutant of change_handler: the old handler is deactivated and the result of
\* set_active(True), None, is kept as the current handler.
change_handler_lost(cur, new_handler) ==
    IF new_handler = cur
    THEN [cur |-> cur, calls |-> <<>>]
    ELSE [cur |-> "None",
          calls |-> <<HCall(cur, "set_active", <<0>>),
                      HCall(new_handler, "set_active", <<1>>)>>]

\* _change_handler(new_handler): the new current handler and the handler
\* calls made
change_handler(cur, new_handler) ==
    IF new_handler = cur
    THEN [cur |-> cur, calls |-> <<>>]
    ELSE [cur |-> new_handler,
          calls |-> <<HCall(cur, "set_active", <<0>>),
                      HCall(new_handler, "set_active", <<1>>)>>]

\* What an operation of the driver yields: the current handler, the handler
\* state, the handler calls and host calls made, and whether it raised.
Outcome(cur, hs, cs, log, exc) ==
    [cur |-> cur, hs |-> hs, calls |-> cs, host |-> log, raised |-> exc]

\* An IndexError on ev[i]: the operation stops there.
IndexError(cur, hs) == Outcome(cur, hs, <<>>, <<>>, TRUE)

\* midi_event(ev).  Every handler of the module defines
\* cc_change_with_channel, so the hasattr test of line 115 is true.
midi_event(cur, hs, ev) ==
    LET evtype == EvType(ev)
        channel == EvChannel(ev)
    IN  IF evtype = MIDI_CC
        THEN IF Len(ev) < 3 THEN IndexError(cur, hs)
             ELSE LET ccnum == Data7(ev, 1)
                      ccval == Data7(ev, 2)
                      r == Handler_cc(cur, hs, channel, ccnum, ccval)
                  IN  Outcome(cur, r.hs,
                              <<HCall(cur, "cc_change_with_channel",
                                      <<channel, ccnum, ccval>>)>>,
                              r.host, FALSE)
        ELSE IF evtype = MIDI_NOTE_ON
        THEN IF Len(ev) < 3 THEN IndexError(cur, hs)
             ELSE LET note == Data7(ev, 1)
                      velocity == Data7(ev, 2)
                      r == Handler_note_on(cur, hs, note, channel, velocity)
                  IN  Outcome(cur, r.hs,
                              <<HCall(cur, "note_on", <<note, channel, velocity>>)>>,
                              r.host, FALSE)
        ELSE IF evtype = MIDI_NOTE_OFF
        THEN IF Len(ev) < 2 THEN IndexError(cur, hs)
             ELSE LET note == Data7(ev, 1)
                      r == Handler_note_off(cur, hs, note, channel)
                  IN  Outcome(cur, r.hs,
                              <<HCall(cur, "note_off", <<note, channel>>)>>,
                              r.host, FALSE)
        ELSE IF evtype = MIDI_PC
        THEN IF Len(ev) < 2 THEN IndexError(cur, hs)
             ELSE LET program == Data7(ev, 1)
                      c == IF program = 0 THEN change_handler(cur, "Mixer")
                           ELSE IF program = 1 THEN change_handler(cur, "Device")
                           ELSE IF program = 2 THEN change_handler(cur, "Pattern")
                           ELSE [cur |-> cur, calls |-> <<>>]
                  IN  Outcome(c.cur, hs, c.calls, <<>>, FALSE)
        ELSE Outcome(cur, hs, <<>>, <<>>, FALSE)

\* Mutant of ScreenHandler: "zynpad" listed with the pattern screens, and
\* an unlisted screen falling back to the Mixer handler.
ScreenHandler_shifted(cur, screen) ==
    IF screen \in {"mixer"} THEN "Mixer"
    ELSE IF screen \in {"control", "preset", "main_menu", "admin"} THEN "Device"
    ELSE IF screen \in {"pattern_editor", "arranger", "zynpad"} THEN "Pattern"
    ELSE "Mixer"

\* The handler _on_gui_show_screen switches to for a screen, cur when the
\* screen is in none of its lists.
ScreenHandler(cur, screen) ==
    IF screen \in {"mixer", "zynpad"} THEN "Mixer"
    ELSE IF screen \in {"control", "preset", "main_menu", "admin"} THEN "Device"
    ELSE IF screen \in {"pattern_editor", "arranger"} THEN "Pattern"
    ELSE cur

\* _on_gui_show_screen(screen)
on_gui_show_screen(cur, hs, screen) ==
    LET c == change_handler(cur, ScreenHandler(cur, screen))
    IN  Outcome(c.cur, hs,
                <<ScreenCall("Device", screen), ScreenCall("Mixer", screen),
                  ScreenCall("Pattern", screen)>> \o c.calls,
                <<>>, FALSE)

\* self._signals: the callbacks init registers and end unregisters
Signals == {"_on_gui_show_screen"}

\* init(): zynsigman.register for each entry of self._signals
init_signals(reg) == reg \cup Signals

\* Mutant of end_signals: end() leaves the callbacks registered.
end_signals_kept(reg) == reg

\* end(): zynsigman.unregister for each entry of self._signals
end_signals(reg) == reg \ Signals

\* ------------------------------------------------------------------------
\* Inputs
\* ------------------------------------------------------------------------
\* The i-th data value of the model: 0, 127, 63, 31, ...
ValAt(i) == IF i = 1 THEN 0 ELSE 127 \div (2 ^ (i - 2))
CcVals == {ValAt(i) : i \in 1 .. NumVals}

\* Status bytes: note off, note on, CC and program change on two channels
\* each, pitch bend, sysex start and a data byte in first place.
StatusBytes == {128, 144, 154, 176, 177, 192, 197, 224, 240, 11}
\* Second bytes: programs 0..3, a knob CC number, and a byte with bit 7 set
\* (129 & 0x7F = 1).
SecondBytes == {0, 1, 2, 3, 50, 129}
ThirdBytes == {0, 127}
\* Raw messages as the host frames them: three bytes, and the shorter
\* messages (real-time, program change, truncated ones).
Events ==
    {<<s, a, b>> : s \in StatusBytes, a \in SecondBytes, b \in ThirdBytes}
    \cup {<<s, a>> : s \in {192, 197}, a \in SecondBytes}
    \cup {<<248>>, <<176>>, <<144, 36>>, <<128, 36>>}

Pots == 0 .. (DEV_CC_LAST - DEV_CC_FIRST)

\* ------------------------------------------------------------------------
\* State machine
\* ------------------------------------------------------------------------
Op(name, ev, screen) == [name |-> name, ev |-> ev, screen |-> screen]

\* The ZYNPOT deltas of a host log, summed for pot p
RECURSIVE PotDelta(_, _)
PotDelta(log, p) ==
    IF log = <<>> THEN 0
    ELSE LET e == Head(log)
         IN  (IF e.fn = "send_cuia" /\ e.cmd = "ZYNPOT" /\ e.args[1] = p
              THEN e.args[2] ELSE 0) + PotDelta(Tail(log), p)

\* The state after an operation with outcome outcome
Apply(outcome) ==
    LET o == outcome
    IN  /\ current_handler' = o.cur
        /\ prev_handler' = current_handler
        /\ prev_hs' = HState
        /\ last_cc_values' = o.hs.last
        /\ level' = o.hs.level
        /\ balance' = o.hs.balance
        /\ mute' = o.hs.mute
        /\ solo' = o.hs.solo
        /\ calls' = o.calls
        /\ host' = o.host
        /\ raised' = o.raised
        /\ first_cc_values' =
              [k \in DOMAIN o.hs.last |->
                  IF k \in DOMAIN first_cc_values THEN first_cc_values[k]
                  ELSE o.hs.last[k]]
        /\ zynpot_sum' = [p \in Pots |-> zynpot_sum[p] + PotDelta(o.host, p)]

Init ==
    /\ current_handler = "Mixer"
    /\ current_screen = NoScreen
    /\ registered = {}
    /\ last_cc_values = [k \in {} |-> 0]
    /\ level = [c \in ChainIndexes |-> 0]
    /\ balance = [c \in ChainIndexes |-> 0]
    /\ mute = [c \in ChainIndexes |-> FALSE]
    /\ solo = [c \in ChainIndexes |-> FALSE]
    /\ op = Op("__init__", <<>>, "")
    /\ calls = <<>>
    /\ host = <<>>
    /\ raised = FALSE
    /\ prev_handler = "Mixer"
    /\ prev_hs = HState
    /\ first_cc_values = [k \in {} |-> 0]
    /\ zynpot_sum = [p \in Pots |-> 0]

\* The host calls init() on a driver it has loaded and not yet initialised.
DriverInit ==
    /\ Signals \cap registered = {}
    /\ registered' = init_signals(registered)
    /\ op' = Op("init", <<>>, "")
    /\ Apply(Outcome(current_handler, HState, <<>>, <<>>, FALSE))
    /\ UNCHANGED current_screen

\* The host calls end() on a driver it has initialised.
DriverEnd ==
    /\ Signals \subseteq registered
    /\ registered' = end_signals(registered)
    /\ op' = Op("end", <<>>, "")
    /\ Apply(Outcome(current_handler, HState, <<>>, <<>>, FALSE))
    /\ UNCHANGED current_screen

\* The host passes a MIDI message to midi_event.
MidiEvent(ev) ==
    /\ op' = Op("midi_event", ev, "")
    /\ Apply(midi_event(current_handler, HState, ev))
    /\ UNCHANGED <<current_screen, registered>>

\* The UI emits SS_GUI_SHOW_SCREEN: the signal manager calls the callback
\* when it is registered, and nothing of the driver otherwise.
ShowScreen(screen) ==
    /\ op' = Op("show_screen", <<>>, screen)
    /\ IF "_on_gui_show_screen" \in registered
       THEN /\ current_screen' = screen
            /\ Apply(on_gui_show_screen(current_handler, HState, screen))
       ELSE /\ current_screen' = current_screen
            /\ Apply(Outcome(current_handler, HState, <<>>, <<>>, FALSE))
    /\ UNCHANGED registered

\* The current handler's cc_change_with_channel is called (line 116).
HandlerCC(channel, ccnum, ccval) ==
    LET r == Handler_cc(current_handler, HState, channel, ccnum, ccval)
    IN  /\ op' = Op("cc_change_with_channel", <<channel, ccnum, ccval>>, "")
        /\ Apply(Outcome(current_handler, r.hs,
                         <<HCall(current_handler, "cc_change_with_channel",
                                 <<channel, ccnum, ccval>>)>>,
                         r.host, FALSE))
        /\ UNCHANGED <<current_screen, registered>>

\* The current handler's note_on is called (line 123).
HandlerNoteOn(note, channel, velocity) ==
    LET r == Handler_note_on(current_handler, HState, note, channel, velocity)
    IN  /\ op' = Op("note_on", <<note, channel, velocity>>, "")
        /\ Apply(Outcome(current_handler, r.hs,
                         <<HCall(current_handler, "note_on",
                                 <<note, channel, velocity>>)>>,
                         r.host, FALSE))
        /\ UNCHANGED <<current_screen, registered>>

\* The current handler's note_off is called (line 127).
HandlerNoteOff(note, channel) ==
    LET r == Handler_note_off(current_handler, HState, note, channel)
    IN  /\ op' = Op("note_off", <<note, channel>>, "")
        /\ Apply(Outcome(current_handler, r.hs,
                         <<HCall(current_handler, "note_off", <<note, channel>>)>>,
                         r.host, FALSE))
        /\ UNCHANGED <<current_screen, registered>>

\* The driver as the host drives it.
Next ==
    \/ DriverInit
    \/ DriverEnd
    \/ \E ev \in Events : MidiEvent(ev)
    \/ \E screen \in Screens : ShowScreen(screen)

Spec == Init /\ [][Next]_vars

\* Inputs of the specifications that exercise the handlers' tables.
FewScreens == {"mixer", "control", "arranger"}
FewEvents == {<<177, 50, 127>>, <<176, 117, 127>>, <<154, 36, 127>>,
              <<138, 36, 0>>, <<192, 1>>, <<192, 5>>, <<240, 1, 2>>}
TableChannels == {0, 1, 4}
TableCcNums == {24, 50, 54, 116, 117, 118}
TableNotes == {36, 38, 52}
TableNoteChannels == {10, 0}

\* The driver with its handlers' entry points called on the current handler.
NextHandlers ==
    \/ DriverInit
    \/ DriverEnd
    \/ \E ev \in FewEvents : MidiEvent(ev)
    \/ \E screen \in FewScreens : ShowScreen(screen)
    \/ \E channel \in TableChannels, ccnum \in TableCcNums, ccval \in CcVals :
          HandlerCC(channel, ccnum, ccval)
    \/ \E note \in TableNotes, channel \in TableNoteChannels :
          HandlerNoteOn(note, channel, 127)
    \/ \E note \in {36}, channel \in TableNoteChannels :
          HandlerNoteOff(note, channel)

SpecHandlers == Init /\ [][NextHandlers]_vars

\* Inputs of the specification of the Device handler's knobs: the first and
\* the last knob, and the CC numbers next to the knob range on either side.
KnobChannels == {0, 1}
KnobCcNums == {DEV_CC_FIRST - 1, DEV_CC_FIRST, DEV_CC_LAST, DEV_CC_LAST + 1}

\* The Device handler's knobs, with switches to the other modes and back.
NextDevice ==
    \/ DriverInit
    \/ \E screen \in {"mixer", "control", "arranger"} : ShowScreen(screen)
    \/ \E ev \in {<<177, 50, 127>>} : MidiEvent(ev)
    \/ \E channel \in KnobChannels, ccnum \in KnobCcNums, ccval \in CcVals :
          HandlerCC(channel, ccnum, ccval)

SpecDevice == Init /\ [][NextDevice]_vars

\* Inputs of the specification of the Mixer handler's pads: the pads of the
\* first three chain indexes in both banks, the last pad of bank A and the
\* notes next to the pad range on either side.
PadNotes == {NOTE_PAD_START_A - 1, NOTE_PAD_START_A, NOTE_PAD_START_A + 1,
             NOTE_PAD_START_A + 2, NOTE_PAD_END_A, NOTE_PAD_START_B,
             NOTE_PAD_START_B + 1, NOTE_PAD_START_B + 2, NOTE_PAD_END_B + 1}
PadChannels == {CHAN_PADS, 0}

\* The Mixer handler's pads, with a knob that sets a level and switches to
\* the Device mode and back.
NextMixer ==
    \/ DriverInit
    \/ \E screen \in {"mixer", "control"} : ShowScreen(screen)
    \/ \E ev \in {<<154, 36, 127>>} : MidiEvent(ev)
    \/ \E ccval \in CcVals : HandlerCC(CHAN_KNOBS_A, CC_KNOBS_START, ccval)
    \/ \E note \in PadNotes, channel \in PadChannels :
          HandlerNoteOn(note, channel, 127)

SpecMixer == Init /\ [][NextMixer]_vars

\* ------------------------------------------------------------------------
\* Claims checked under Spec
\* ------------------------------------------------------------------------
\* The message kinds as the claims name them, by status byte.
IsControlChange(ev) == ev[1] \in 176 .. 191
IsNoteOn(ev) == ev[1] \in 144 .. 159
IsNoteOff(ev) == ev[1] \in 128 .. 143
IsProgramChange(ev) == ev[1] \in 192 .. 207

\* C1 (as claimed): a three-byte Control Change, Note On or Note Off passed
\* to midi_event is routed to the handler that was current: exactly one
\* handler call, to that handler's cc_change_with_channel / note_on /
\* note_off, with the decoded channel, number and value.
C1_Routed ==
    (op.name = "midi_event" /\ Len(op.ev) = 3) =>
        LET ev == op.ev
            channel == ev[1] % 16
            number == ev[2] % 128
            value == ev[3] % 128
        IN  /\ IsControlChange(ev) =>
                calls = <<HCall(prev_handler, "cc_change_with_channel",
                                <<channel, number, value>>)>>
            /\ IsNoteOn(ev) =>
                calls = <<HCall(prev_handler, "note_on",
                                <<number, channel, value>>)>>
            /\ IsNoteOff(ev) =>
                calls = <<HCall(prev_handler, "note_off", <<number, channel>>)>>

\* C2: exactly one of the three handlers is current in every reachable
\* state, and it is the Mixer handler right after construction.
C2_OneOfThree ==
    /\ current_handler \in Handlers
    /\ op.name = "__init__" => current_handler = "Mixer"

\* C2 witness: the handler has been switched away from Mixer, and MIDI
\* events and screen changes with an unlisted screen have followed.
C2_Witness ==
    /\ current_handler = "Pattern"
    /\ prev_handler = "Pattern"
    /\ current_screen = "option"
    /\ op.name = "midi_event"

\* C7: init leaves exactly the screen-change callback registered, end
\* leaves none registered, and a screen change emitted while none is
\* registered calls no handler and leaves the current handler as it was.
C7_Lifecycle ==
    /\ registered \subseteq {"_on_gui_show_screen"}
    /\ op.name = "init" => registered = {"_on_gui_show_screen"}
    /\ op.name = "end" => registered = {}
    /\ (op.name = "show_screen" /\ registered = {}) =>
          /\ current_handler = prev_handler
          /\ calls = <<>>
          /\ host = <<>>

\* C7 witness: after init, a screen change and end, a screen change for a
\* device screen is emitted and the driver stays on the Mixer handler.
C7_Witness ==
    /\ op.name = "show_screen"
    /\ op.screen = "control"
    /\ registered = {}
    /\ current_screen = "mixer"
    /\ current_handler = "Mixer"

\* C8 (as claimed): a Program Change passed to midi_event makes Mixer
\* current for program 0, Device for 1, Pattern for 2, leaves the handler
\* as it was for every other program, and is forwarded to no handler as a
\* CC or note.
C8_ProgramChange ==
    (op.name = "midi_event" /\ Len(op.ev) >= 2 /\ IsProgramChange(op.ev)) =>
        LET program == op.ev[2] % 128
        IN  /\ program = 0 => current_handler = "Mixer"
            /\ program = 1 => current_handler = "Device"
            /\ program = 2 => current_handler = "Pattern"
            /\ program \notin {0, 1, 2} => current_handler = prev_handler
            /\ \A i \in 1 .. Len(calls) :
                  calls[i].m \notin {"cc_change_with_channel", "note_on",
                                     "note_off"}

\* The handler the claim gives for a screen, h when it gives none.
ClaimedScreenHandler(h, screen) ==
    CASE screen \in MixerScreens -> "Mixer"
      [] screen \in DeviceScreens -> "Device"
      [] screen \in PatternScreens -> "Pattern"
      [] OTHER -> h

\* C9: a screen-change signal delivered to the driver records the screen,
\* calls on_screen_change on the Device, Mixer and Pattern handlers before
\* any switch, and leaves current the handler the screen's list names, or
\* the previous handler for a screen in no list.
C9_ScreenSwitch ==
    (op.name = "show_screen" /\ registered # {}) =>
        /\ current_screen = op.screen
        /\ Len(calls) >= 3
        /\ SubSeq(calls, 1, 3) = <<ScreenCall("Device", op.screen),
                                   ScreenCall("Mixer", op.screen),
                                   ScreenCall("Pattern", op.screen)>>
        /\ current_handler = ClaimedScreenHandler(prev_handler, op.screen)
        /\ Len(calls) = IF current_handler = prev_handler THEN 3 ELSE 5
        /\ \A i \in 4 .. Len(calls) : calls[i].m = "set_active"

\* C9 witness: the Device handler is current and the arranger screen is
\* shown: the Pattern handler becomes current.
C9_Witness ==
    /\ op.name = "show_screen"
    /\ op.screen = "arranger"
    /\ registered # {}
    /\ prev_handler = "Device"
    /\ current_handler = "Pattern"

\* ------------------------------------------------------------------------
\* Claims checked under SpecHandlers
\* ------------------------------------------------------------------------
\* The (channel, CC number) pairs in the CC table of handler h
MappedCC(h, channel, ccnum) ==
    CASE h = "Mixer" -> \/ channel = 0 /\ ccnum \in 114 .. 119
                        \/ channel \in {1, 2, 3} /\ ccnum \in 50 .. 57
      [] h = "Device" -> channel = 1 /\ ccnum \in 50 .. 53
      [] h = "Pattern" -> channel = 0 /\ ccnum \in {117, 118, 119}

\* The (channel, note) pairs in the note table of handler h
MappedNote(h, channel, note) ==
    CASE h = "Mixer" -> channel = 10 /\ note \in 36 .. 51
      [] h = "Device" -> channel = 10 /\ note \in 36 .. 43
      [] h = "Pattern" -> channel = 10 /\ note \in 36 .. 38

\* A raw message that is unmapped while handler h is current
UnmappedEvent(h, ev) ==
    \/ ~(IsControlChange(ev) \/ IsNoteOn(ev) \/ IsNoteOff(ev)
         \/ IsProgramChange(ev))
    \/ /\ IsControlChange(ev) /\ Len(ev) = 3
       /\ ~MappedCC(h, ev[1] % 16, ev[2] % 128)
    \/ /\ IsNoteOn(ev) \/ IsNoteOff(ev)
       /\ Len(ev) = 3
       /\ ~MappedNote(h, ev[1] % 16, ev[2] % 128)
    \/ /\ IsProgramChange(ev) /\ Len(ev) >= 2
       /\ (ev[2] % 128) \notin {0, 1, 2}

\* The last operation made no host call, changed no handler or mixer state,
\* left the current handler as it was and raised nothing.
Dropped ==
    /\ host = <<>>
    /\ HState = prev_hs
    /\ current_handler = prev_handler
    /\ ~raised

\* C3: an unmapped message is silently dropped, whether it comes through
\* midi_event or reaches the current handler's entry point directly: no
\* host call, no state change, same current handler, no error.
C3_UnmappedDropped ==
    /\ (op.name = "midi_event" /\ UnmappedEvent(prev_handler, op.ev)) => Dropped
    /\ (op.name = "cc_change_with_channel"
        /\ ~MappedCC(prev_handler, op.ev[1], op.ev[2])) => Dropped
    /\ (op.name = "note_on"
        /\ ~MappedNote(prev_handler, op.ev[2], op.ev[1])) => Dropped
    /\ (op.name = "note_off"
        /\ ~MappedNote(prev_handler, op.ev[2], op.ev[1])) => Dropped

\* C3 witness: the Device handler, holding a recorded knob value, gets a CC
\* on its knob channel with a number just outside its table.
C3_Witness ==
    /\ op.name = "cc_change_with_channel"
    /\ prev_handler = "Device"
    /\ op.ev[1] = 1
    /\ op.ev[2] = 54
    /\ DOMAIN last_cc_values # {}
    /\ host = <<>>

\* Arguments the two-instance comparisons of C4 range over
C4CcNums == TableCcNums \cup {49, 51, 52, 53}
C4Notes == TableNotes \cup {37, 44}

\* The handler-side state of a second driver instance that faces the same
\* host state and has recorded the knob values d
Instance(d) == [HState EXCEPT !.last = d]
NoValues == [k \in {} |-> 0]

\* C4 (as claimed): the host calls made for an event depend only on the
\* current mode, the event and the host state: the driver, whatever its
\* history, makes the calls a freshly constructed driver in the same mode
\* makes.
C4_ModeAndEventOnly ==
    /\ \A channel \in TableChannels, ccnum \in C4CcNums, ccval \in CcVals :
          Handler_cc(current_handler, HState, channel, ccnum, ccval).host
          = Handler_cc(current_handler, Instance(NoValues), channel, ccnum,
                       ccval).host
    /\ \A note \in C4Notes, channel \in TableNoteChannels :
          Handler_note_on(current_handler, HState, note, channel, 127).host
          = Handler_note_on(current_handler, Instance(NoValues), note, channel,
                            127).host
    /\ \A ev \in FewEvents :
          midi_event(current_handler, HState, ev).host
          = midi_event(current_handler, Instance(NoValues), ev).host

\* The part of the recorded knob values that belongs to key
OwnValue(key) ==
    [k \in (DOMAIN last_cc_values) \cap {key} |-> last_cc_values[k]]

\* C4 (amended): the host calls made for an event depend only on the
\* current mode, the event, the host state and, for a CC, the value the
\* Device handler last recorded for that same (channel, CC number); in
\* Mixer and Pattern mode, and for notes, they do not depend on the
\* recorded values at all.
C4_ModeEventAndOwnLastValue ==
    /\ \A channel \in TableChannels, ccnum \in C4CcNums, ccval \in CcVals :
          /\ Handler_cc(current_handler, HState, channel, ccnum, ccval).host
             = Handler_cc(current_handler,
                          Instance(OwnValue(<<channel, ccnum>>)), channel,
                          ccnum, ccval).host
          /\ current_handler # "Device" =>
                Handler_cc(current_handler, HState, channel, ccnum, ccval).host
                = Handler_cc(current_handler, Instance(NoValues), channel,
                             ccnum, ccval).host
    /\ \A note \in C4Notes, channel \in TableNoteChannels :
          Handler_note_on(current_handler, HState, note, channel, 127).host
          = Handler_note_on(current_handler, Instance(NoValues), note, channel,
                            127).host
    /\ \A ev \in FewEvents :
          midi_event(current_handler, HState, ev).host
          = midi_event(current_handler, Instance(NoValues), ev).host

\* C4 witness: the Device handler is current with a recorded knob value,
\* and the same CC that a fresh driver would answer with nothing has just
\* produced a ZYNPOT delta.
C4_Witness ==
    /\ current_handler = "Device"
    /\ op.name = "cc_change_with_channel"
    /\ op.ev[1] = 1 /\ op.ev[2] = 50
    /\ host # <<>>
    /\ Handler_cc("Device", Instance(NoValues), op.ev[1], op.ev[2],
                  op.ev[3]).host = <<>>

\* C5 (as claimed): the transport CCs of the header's mapping (Stop=116,
\* Play=118, Rec=119) on channel 0 issue stop, play and record in Mixer
\* mode, and STOP, TOGGLE_PLAY and TOGGLE_RECORD in Pattern mode.
C5_DocumentedTransport ==
    (op.name = "cc_change_with_channel" /\ op.ev[1] = 0) =>
        /\ prev_handler = "Mixer" =>
              /\ op.ev[2] = DOC_CC_STOP => host = <<Cuia("STOP_AUDIO_PLAY", <<>>)>>
              /\ op.ev[2] = DOC_CC_PLAY => host = <<Cuia("TOGGLE_AUDIO_PLAY", <<>>)>>
              /\ op.ev[2] = DOC_CC_REC => host = <<Cuia("TOGGLE_AUDIO_RECORD", <<>>)>>
        /\ prev_handler = "Pattern" =>
              /\ op.ev[2] = DOC_CC_STOP => host = <<Cuia("STOP", <<>>)>>
              /\ op.ev[2] = DOC_CC_PLAY => host = <<Cuia("TOGGLE_PLAY", <<>>)>>
              /\ op.ev[2] = DOC_CC_REC => host = <<Cuia("TOGGLE_RECORD", <<>>)>>

\* C6 (as claimed): the knob CCs of the header's mapping (24 + k, k = 0..7)
\* set the level (channel 1) or the balance (channel 2) of the chain at
\* index k in Mixer mode, and the first four drive the ZynPots in Device
\* mode (their value is recorded for the delta).
C6_DocumentedKnobs ==
    (op.name = "cc_change_with_channel"
     /\ op.ev[2] \in DOC_CC_KNOBS_FIRST .. (DOC_CC_KNOBS_FIRST + 7)) =>
        LET k == op.ev[2] - DOC_CC_KNOBS_FIRST
            normal == HasChain(k) /\ chain_id(k) # 0
        IN  /\ (prev_handler = "Mixer" /\ op.ev[1] = 1 /\ normal) =>
                  host = <<HostCall("set_level", <<k, op.ev[3] * 100>>)>>
            /\ (prev_handler = "Mixer" /\ op.ev[1] = 2 /\ normal) =>
                  host = <<HostCall("set_balance",
                                    <<k, op.ev[3] * 200 - 100 * 127>>)>>
            /\ (prev_handler = "Device" /\ op.ev[1] = 1 /\ k <= 3) =>
                  <<1, op.ev[2]>> \in DOMAIN last_cc_values

\* ------------------------------------------------------------------------
\* Claims checked under SpecDevice
\* ------------------------------------------------------------------------
\* C10: the Device handler turns absolute knob values into deltas.  Only
\* knobs 50..53 on channel 1 are ever recorded; a value for such a knob is
\* recorded and emits ZYNPOT [k, v - previous] exactly when a previous value
\* exists and differs; any other CC emits and records nothing; operations
\* of other modes leave the records alone; and the deltas emitted for a
\* knob sum to its last value minus its first.
C10_KnobDeltas ==
    /\ DOMAIN last_cc_values \subseteq {<<1, n>> : n \in 50 .. 53}
    /\ \A k \in 0 .. 3 :
          LET key == <<1, 50 + k>>
          IN  IF key \in DOMAIN last_cc_values
              THEN zynpot_sum[k] = last_cc_values[key] - first_cc_values[key]
              ELSE zynpot_sum[k] = 0
    /\ IF op.name = "cc_change_with_channel" /\ prev_handler = "Device"
       THEN LET key == <<op.ev[1], op.ev[2]>>
                v == op.ev[3]
                before == prev_hs.last
            IN  IF op.ev[1] = 1 /\ op.ev[2] \in 50 .. 53
                THEN /\ last_cc_values = DictSet(before, key, v)
                     /\ host = IF key \in DOMAIN before /\ before[key] # v
                               THEN <<Cuia("ZYNPOT",
                                           <<op.ev[2] - 50, v - before[key]>>)>>
                               ELSE <<>>
                ELSE /\ last_cc_values = prev_hs.last
                     /\ host = <<>>
       ELSE last_cc_values = prev_hs.last

\* C10 witness: after a switch to another mode and back, the last knob has
\* returned to its first value: a negative delta has just been emitted and
\* the deltas of that knob sum to zero.
C10_Witness ==
    /\ op.name = "cc_change_with_channel"
    /\ prev_handler = "Device"
    /\ op.ev[1] = 1 /\ op.ev[2] = 53
    /\ host = <<Cuia("ZYNPOT", <<3, 0 - 127>>)>>
    /\ zynpot_sum[3] = 0
    /\ <<1, 50>> \in DOMAIN last_cc_values
    /\ current_screen = "control"
    /\ level[0] # 0

\* ------------------------------------------------------------------------
\* Claims checked under SpecMixer
\* ------------------------------------------------------------------------
\* A chain exists at index idx and is not the main chain.
NormalChain(idx) == HasChain(idx) /\ chain_id(idx) # 0

\* f with the boolean at x inverted
Inverted(f, x) == [f EXCEPT ![x] = ~f[x]]

\* C11: in Mixer mode a Note On on channel 10 with note 36 + i inverts the
\* mute of the chain at index i + 8 * bank and nothing else; with note
\* 44 + i it inverts the solo of that chain and nothing else; where no
\* chain is at that index, or the chain is the main chain, nothing changes
\* and _update_chain returns False; notes on other channels or outside
\* 36..51 change nothing; and the same pad pressed twice restores the
\* state.
C11_PadToggles ==
    /\ (op.name = "note_on" /\ prev_handler = "Mixer") =>
          LET note == op.ev[1]
              channel == op.ev[2]
              idx == ((note - 36) % 8) + 8 * chains_bank
              pad == channel = 10 /\ note \in 36 .. 51 /\ NormalChain(idx)
          IN  /\ level = prev_hs.level
              /\ balance = prev_hs.balance
              /\ last_cc_values = prev_hs.last
              /\ (pad /\ note <= 43) =>
                    /\ mute = Inverted(prev_hs.mute, idx)
                    /\ solo = prev_hs.solo
              /\ (pad /\ note >= 44) =>
                    /\ solo = Inverted(prev_hs.solo, idx)
                    /\ mute = prev_hs.mute
              /\ ~pad => (mute = prev_hs.mute /\ solo = prev_hs.solo
                          /\ host = <<>>)
    /\ \A i \in 0 .. 7 :
          ~NormalChain(i + 8 * chains_bank) =>
              /\ ~update_chain(HState, "mute_toggle", 50 + i, 127,
                               FALSE, 0, 0).ret
              /\ ~update_chain(HState, "solo_toggle", 50 + i, 127,
                               FALSE, 0, 0).ret
    /\ \A note \in 36 .. 51 :
          Mixer_note_on(Mixer_note_on(HState, note, 10, 127).hs, note, 10,
                        127).hs = HState

\* C11 witness: with chain 0 muted and its level set, the solo pad of
\* chain 1 has been pressed a second time: its solo is off again.
C11_Witness ==
    /\ op.name = "note_on"
    /\ prev_handler = "Mixer"
    /\ op.ev[1] = 45 /\ op.ev[2] = 10
    /\ prev_hs.solo[1]
    /\ ~solo[1]
    /\ mute[0]
    /\ level[0] # 0
    /\ current_screen = "mixer"

====
